---------------------------- MODULE Spec2Model ----------------------------
(***************************************************************************)
(* Brand-discovery pipeline of koikar/agent-challenge: the orchestrator    *)
(* (/brand-discovery), the async job launcher, the Firecrawl webhook       *)
(* handler, the R2 upload of a scraped page and the cron reconciler, over  *)
(* the three tables brands, playground_url_mappings and brand_urls.        *)
(* Every await on the database, the bucket or the provider is one step, so *)
(* concurrent invocations interleave exactly at the code's awaits.         *)
(***************************************************************************)
EXTENDS Integers, Sequences, FiniteSets, TLC

(***************************************************************************)
(* Bounds of the model.                                                    *)
(***************************************************************************)
MaxDiscoveries == 2   \* /brand-discovery requests in one behaviour
MaxDeliveries  == 2   \* POST /webhook/firecrawl requests in one behaviour
MaxTicks       == 1   \* cron invocations in one behaviour
MaxItems       == 6   \* content items of one uploadBrandContent call
MaxPieces      == 3   \* pieces of an input of normalizeUrl
MaxCalls       == 2   \* times a domain goes through normalizeUrl
MaxOverlap     == 2   \* cron invocations that overlap
MaxLinks       == 2   \* links of a map result given to categorizeUrls
MaxScans       == 3   \* POST /api/playground/scan requests in one behaviour

(***************************************************************************)
(* Program constants.                                                      *)
(***************************************************************************)
MaxPerCategory == 8   \* selectTopUrls(categorizedUrls, 8)
CronLimit      == 10  \* .limit(10) of the reconciler's select
SubdomainScore == 100
PathScore      == 50
TitleScore     == 25
HomepageScore  == 30
ProgressCreated   == 30
ProgressMapped    == 40
ProgressStarted   == 50
ProgressCompleted == 100
HashLength        == 64
BATCH_SIZE        == 5

None == "none"

(***************************************************************************)
(* Small helpers.                                                          *)
(***************************************************************************)
Range(s) == {s[i] : i \in 1..Len(s)}

RECURSIVE FilterSeq(_, _)
FilterSeq(s, S) ==
    IF s = <<>> THEN <<>>
    ELSE IF Head(s) \in S THEN <<Head(s)>> \o FilterSeq(Tail(s), S)
         ELSE FilterSeq(Tail(s), S)

RECURSIVE Before(_, _)
\* s.split(t)[0] on token sequences: the tokens before the first t
Before(s, t) ==
    IF s = <<>> \/ Head(s) = t THEN <<>> ELSE <<Head(s)>> \o Before(Tail(s), t)

(***************************************************************************)
(* normalizeUrl: a string is a sequence of tokens, each a run of           *)
(* characters that no step of normalizeUrl splits: a word, ":", "/", ".",  *)
(* a blank, a percent escape, a lone "%".                                  *)
(***************************************************************************)
Schemes == {"http", "https"}

\* toLowerCase of one token
Lower(t) ==
    CASE t = "ACME"   -> "acme"
      [] t = "WWW"    -> "www"
      [] t = "%2F"    -> "%2f"
      [] t = "%252F"  -> "%252f"
      [] OTHER        -> t

HasDot(s) == \E i \in 1..Len(s) : s[i] = "."

\* decodeURIComponent throws URIError on a "%" that starts no escape
Malformed(s) == \E i \in 1..Len(s) : s[i] = "%"

decodeURIComponent(s) ==
    [i \in 1..Len(s) |->
        CASE s[i] \in {"%2F", "%2f"}     -> "/"
          [] s[i] = "%25"                -> "%"
          [] s[i] = "%252F"              -> "%2F"
          [] s[i] = "%252f"              -> "%2f"
          [] OTHER                       -> s[i]]

\* replace(/^https?:\/\//, "")
StripScheme(s) ==
    IF Len(s) >= 4 /\ s[1] \in Schemes /\ s[2] = ":" /\ s[3] = "/" /\ s[4] = "/"
    THEN SubSeq(s, 5, Len(s)) ELSE s

\* replace(/^www\./, "")
StripWww(s) ==
    IF Len(s) >= 2 /\ s[1] = "www" /\ s[2] = "." THEN SubSeq(s, 3, Len(s)) ELSE s

LowerAll(s) == [i \in 1..Len(s) |-> Lower(s[i])]

RECURSIVE Trim(_)
\* trim(): the blanks at both ends go
Trim(s) ==
    IF s = <<>> THEN s
    ELSE IF Head(s) = " " THEN Trim(Tail(s))
    ELSE IF s[Len(s)] = " " THEN Trim(SubSeq(s, 1, Len(s) - 1))
    ELSE s

normalizeUrl(input) ==
    IF input = <<>> THEN <<>>
    ELSE LET d1 == StripWww(StripScheme(decodeURIComponent(input)))
             d2 == Trim(LowerAll(Before(Before(d1, "/"), ":")))
             fallback == Trim(LowerAll(StripWww(StripScheme(input))))
         IN IF Malformed(input) THEN fallback
            ELSE IF d2 = <<>> \/ ~HasDot(d2) THEN fallback
            ELSE d2

\* the domains of the requests to /brand-discovery
RawDomains ==
    { <<"acme", ".", "com">>,
      <<"https", ":", "/", "/", "www", ".", "ACME", ".", "com", "/", "about">> }

\* the pieces the inputs of normalizeUrl are put together from
Pieces ==
    { <<"https", ":", "/", "/">>, <<"www", ".">>, <<"WWW", ".">>,
      <<"acme", ".", "com">>, <<"ACME", ".", "com">>, <<"localhost">>,
      <<"/", "about">>, <<":", "8080">>, <<" ">>,
      <<"%25">>, <<"%2F">>, <<"%252F">>, <<"%">> }

RECURSIVE Flatten(_)
Flatten(ps) == IF ps = <<>> THEN <<>> ELSE Head(ps) \o Flatten(Tail(ps))

\* every non-empty string of at most MaxPieces pieces
NormalizeInputs ==
    {Flatten(ps) : ps \in UNION {[1..n -> Pieces] : n \in 1..MaxPieces}}

(***************************************************************************)
(* categorizeUrls / selectTopUrls.  A link carries its URL and what the     *)
(* tests of categorizeUrls find in it: host, the pattern words w with       *)
(* hostname.includes(w + "."); path, those with pathname.includes(w);      *)
(* title, the keywords the title includes; home, the pathname is "/" or     *)
(* "/home"; valid, new URL(link.url) and the lower-casing do not throw.    *)
(***************************************************************************)
Categories == <<"company", "blog", "docs", "ecommerce">>

Patterns ==
    [company   |-> [subdomains |-> {"www", "main", "corporate"},
                    paths  |-> {"about", "company", "team", "careers", "contact",
                                "investors", "leadership", "mission", "values"},
                    titles |-> {"about us", "our team", "careers", "contact us",
                                "leadership", "company"}],
     blog      |-> [subdomains |-> {"blog", "news", "media", "press", "stories"},
                    paths  |-> {"blog", "news", "articles", "updates", "press",
                                "media", "stories", "insights", "newsroom"},
                    titles |-> {"blog", "news", "article", "press", "update", "story"}],
     docs      |-> [subdomains |-> {"docs", "help", "support", "api", "developer", "dev"},
                    paths  |-> {"docs", "documentation", "help", "support", "guide",
                                "api", "reference", "tutorial", "manual"},
                    titles |-> {"documentation", "help", "guide", "api", "reference",
                                "tutorial"}],
     ecommerce |-> [subdomains |-> {"shop", "store", "buy", "checkout", "cart"},
                    paths  |-> {"shop", "store", "buy", "cart", "checkout", "products",
                                "catalog", "marketplace", "order"},
                    titles |-> {"shop", "store", "buy", "product", "catalog",
                                "marketplace"}]]

HomeLink == [url |-> "https://acme.com/", host |-> {}, path |-> {}, title |-> {},
             home |-> TRUE, valid |-> TRUE]
BlogLink == [url |-> "https://blog.acme.com/post", host |-> {"blog"}, path |-> {},
             title |-> {}, home |-> FALSE, valid |-> TRUE]

Urls == {HomeLink.url, BlogLink.url}

\* what firecrawl.map can return for the domain
MapResults == { <<>>, <<HomeLink>>, <<BlogLink>>, <<HomeLink, BlogLink>> }

CategoryScore(link, c) ==
    (IF link.host \cap Patterns[c].subdomains # {} THEN SubdomainScore ELSE 0)
  + (IF link.path \cap Patterns[c].paths # {} THEN PathScore ELSE 0)
  + (IF link.title \cap Patterns[c].titles # {} THEN TitleScore ELSE 0)
  + (IF c = "company" /\ link.home THEN HomepageScore ELSE 0)

RECURSIVE BestCategoryLastWins(_, _, _, _)
\* a loop in which a later category wins with an equal score as well
BestCategoryLastWins(link, i, category, priority) ==
    IF i > Len(Categories) THEN [category |-> category, priority |-> priority]
    ELSE LET s == CategoryScore(link, Categories[i])
         IN IF s >= priority /\ s > 0
            THEN BestCategoryLastWins(link, i + 1, Categories[i], s)
            ELSE BestCategoryLastWins(link, i + 1, category, priority)

RECURSIVE BestCategory(_, _, _, _)
\* the for-loop over Object.entries(patterns): a later category wins only
\* with a strictly higher score
BestCategory(link, i, category, priority) ==
    IF i > Len(Categories) THEN [category |-> category, priority |-> priority]
    ELSE LET s == CategoryScore(link, Categories[i])
         IN IF s > priority
            THEN BestCategory(link, i + 1, Categories[i], s)
            ELSE BestCategory(link, i + 1, category, priority)

Categorize(link) ==
    IF link.valid THEN BestCategory(link, 1, "other", 0)
    ELSE [category |-> "other", priority |-> 0]

\* the links of one category, in input order, each with its priority
RECURSIVE CategoryOf(_, _)
CategoryOf(links, c) ==
    IF links = <<>> THEN <<>>
    ELSE LET k == Categorize(Head(links))
         IN (IF k.category = c
             THEN <<[url |-> Head(links).url, priority |-> k.priority]>>
             ELSE <<>>) \o CategoryOf(Tail(links), c)

categorizeUrls(links) ==
    [c \in {"company", "blog", "docs", "ecommerce", "other"} |-> CategoryOf(links, c)]

RECURSIVE InsertByPriority(_, _)
InsertByPriority(x, s) ==
    IF s = <<>> THEN <<x>>
    ELSE IF x.priority > Head(s).priority THEN <<x>> \o s
         ELSE <<Head(s)>> \o InsertByPriority(x, Tail(s))

RECURSIVE SortByPriority(_)
\* stable, descending by priority
SortByPriority(s) ==
    IF s = <<>> THEN <<>>
    ELSE LET rest == SortByPriority(SubSeq(s, 1, Len(s) - 1))
         IN InsertByPriority(s[Len(s)], rest)

Take(s, n) == SubSeq(s, 1, IF Len(s) < n THEN Len(s) ELSE n)

selectTopUrls(categorized, maxPerCategory) ==
    Take(SortByPriority(categorized["company"]), maxPerCategory)
 \o Take(SortByPriority(categorized["ecommerce"]), maxPerCategory)
 \o Take(SortByPriority(categorized["docs"]), maxPerCategory)
 \o Take(SortByPriority(categorized["blog"]), maxPerCategory)
 \o Take(SortByPriority(categorized["other"]), maxPerCategory)

UrlsOf(s) == {s[i].url : i \in 1..Len(s)}


(***************************************************************************)
(* Values of the rows.  Texts built from a template are records            *)
(* [kind, arg]: the template and the string put into it.                   *)
(***************************************************************************)
Text(kind, arg) == [kind |-> kind, arg |-> arg]

\* domain.split(".")[0].charAt(0).toUpperCase() + domain.split(".")[0].slice(1)
TitleCase(domain) == Text("title-cased", domain)

Clearbit(domain) == Text("https://logo.clearbit.com/", domain)

Given(s) == Text("given", <<s>>)

\* the structured fields an extraction returns; "none" is a missing (falsy) field
FullData  == [company_name |-> "Acme Inc", description |-> "We sell anvils",
              logo_url |-> "https://acme.com/logo.png", industry |-> "Retail"]
EmptyData == [company_name |-> None, description |-> None,
              logo_url |-> None, industry |-> None]
NamelessData == [FullData EXCEPT !.company_name = None]
BareData     == [EmptyData EXCEPT !.company_name = "Acme Inc"]

ExtractedDataSet == {FullData, EmptyData, NamelessData, BareData}

BrandIds == 1..MaxDiscoveries   \* every request inserts at most one row

NoMetadata ==
    [data |-> EmptyData, placeholder |-> FALSE, industry |-> None,
     extractJobId |-> 0, worker_processed |-> FALSE, playground_scan |-> FALSE,
     cronProcessed |-> FALSE, extractCompletedAt |-> FALSE]

\* pipeline.ts: the placeholder written by insert and by update alike
PlaceholderFields(domain, extractJobId) ==
    [name |-> TitleCase(domain),
     description |-> Text("Extracting brand information from", domain),
     logo_url |-> Clearbit(domain),
     metadata |-> [NoMetadata EXCEPT !.placeholder = TRUE,
                                     !.industry = "Analyzing...",
                                     !.extractJobId = extractJobId,
                                     !.worker_processed = TRUE,
                                     !.playground_scan = TRUE],
     crawl_status |-> "extracting"]

BrandName(domain, data) ==
    IF data.company_name = None THEN TitleCase(domain) ELSE Given(data.company_name)

Official(name) ==
    Text(IF name.kind = "given" THEN "Official website and services from (given)"
         ELSE "Official website and services from (title-cased)", name.arg)

\* firecrawl-handler.ts handleExtractCompleted: the update it sends
WebhookExtractFields(domain, data) ==
    [name |-> BrandName(domain, data),
     description |-> IF data.description = None
                     THEN Official(BrandName(domain, data))
                     ELSE Given(data.description),
     logo_url |-> IF data.logo_url = None THEN Clearbit(domain)
                  ELSE Given(data.logo_url),
     metadata |-> [NoMetadata EXCEPT !.data = data,
                       !.industry = IF data.industry = None THEN "Various"
                                    ELSE data.industry,
                       !.worker_processed = TRUE,
                       !.playground_scan = TRUE,
                       !.extractCompletedAt = TRUE],
     crawl_status |-> "processing"]

\* processPendingExtractJobs, completed branch: the update it sends
CronExtractFields(domain, data) ==
    [name |-> BrandName(domain, data),
     description |-> IF data.description = None
                     THEN Official(BrandName(domain, data))
                     ELSE Given(data.description),
     logo_url |-> IF data.logo_url = None THEN Clearbit(domain)
                  ELSE Given(data.logo_url),
     metadata |-> [NoMetadata EXCEPT !.data = data,
                       !.industry = IF data.industry = None THEN "Technology"
                                    ELSE data.industry,
                       !.extractCompletedAt = TRUE,
                       !.cronProcessed = TRUE],
     crawl_status |-> "processing"]

\* an update whose crawl_status goes one step on from the row's
UpdatedStepping(row, fields) ==
    [row EXCEPT !.name = fields.name, !.description = fields.description,
                !.logo_url = fields.logo_url, !.metadata = fields.metadata,
                !.crawl_status = IF row.crawl_status = fields.crawl_status
                                 THEN "completed" ELSE fields.crawl_status]

\* a row of brands after an update of the given columns
Updated(row, fields) ==
    [row EXCEPT !.name = fields.name, !.description = fields.description,
                !.logo_url = fields.logo_url, !.metadata = fields.metadata,
                !.crawl_status = fields.crawl_status]

NewBrand(domain, fields) ==
    [primary_domain |-> domain, name |-> fields.name,
     description |-> fields.description, logo_url |-> fields.logo_url,
     metadata |-> fields.metadata, crawl_status |-> fields.crawl_status]

Step(kind, a, b) == [kind |-> kind, a |-> a, b |-> b]

NoMapping ==
    [status |-> "absent", progress_percentage |-> 0,
     current_step |-> Step("absent", 0, 0), error_message |-> None]

(***************************************************************************)
(* State.                                                                  *)
(***************************************************************************)
VARIABLES
    brands,          \* table brands: a sequence, the id of a row is its index
    mappings,        \* table playground_url_mappings, one row per (brand_id, domain)
    urls,            \* table brand_urls: urls[b][u] is the status of row (b, u)
    bucket,          \* keys of the objects in the R2 bucket
    clock,           \* Date.now()
    extractJobs,     \* the provider's extract jobs, the id is the index
    batchJobs,       \* the provider's batch-scrape jobs, the id is the index
    req,             \* the /brand-discovery invocations
    wh,              \* the /webhook/firecrawl invocations
    cron,            \* the scheduled invocations
    call,            \* an uploadBrandContent call made through /upload-brand-content
    cleanDomain,     \* a domain and what normalizeUrl has made of it, call after call
    categorized,     \* the links of a map result and what categorizeUrls returns
    front,           \* the frontend instance: processingCache, the scan requests,
                     \* the fetches to the worker's /brand-discovery in flight
    completedWrites  \* history: what each handled completed event read and wrote

vars == <<brands, mappings, urls, bucket, clock, extractJobs, batchJobs,
          req, wh, cron, call, cleanDomain, categorized, front, completedWrites>>

tables == <<brands, mappings, urls, bucket>>

Requests   == 1..MaxDiscoveries
Deliveries == 1..MaxDeliveries
Ticks      == 1..MaxTicks

IdleReq ==
    [pc |-> "idle", domain |-> <<>>, extractJobId |-> 0, existing |-> 0,
     brand |-> 0, links |-> <<>>, error |-> None, success |-> None]

IdleWh ==
    [pc |-> "idle", kind |-> None, id |-> 0, brandId |-> 0, mappingId |-> 0,
     domain |-> <<>>, url |-> None,
     snap |-> [u \in Urls |-> "absent"], r2 |-> None, first |-> None,
     log |-> <<>>, error |-> None, sigGood |-> FALSE, parsed |-> FALSE,
     unhandled |-> FALSE, resp |-> 0]

\* threw: the iteration the loop has just left ended in its catch
IdleCron == [pc |-> "idle", pending |-> <<>>, threw |-> FALSE]

NoInput == [input |-> <<>>, results |-> <<>>]

NoLinks == [links |-> <<>>, out |-> <<>>]

\* the route's module has been loaded: the cache is empty, no request yet
NoScans ==
    [cache |-> {}, fetches |-> {},
     scans |-> [s \in 1..MaxScans |->
                   [pc |-> "idle", domain |-> <<>>, promise |-> 0, resp |-> 0]]]

IdleCall ==
    [pc |-> "idle", domain |-> <<>>, content |-> <<>>, overwrite |-> FALSE,
     i |-> 0, items |-> <<>>, results |-> <<>>,
     summary |-> [total |-> 0, successful |-> 0, failed |-> 0], success |-> FALSE]

Init ==
    /\ brands = <<>>
    /\ mappings = [b \in BrandIds |-> NoMapping]
    /\ urls = [b \in BrandIds |-> [u \in Urls |-> "absent"]]
    /\ bucket = {}
    /\ clock = 0
    /\ extractJobs = <<>>
    /\ batchJobs = <<>>
    /\ req = [r \in Requests |-> IdleReq]
    /\ wh = [w \in Deliveries |-> IdleWh]
    /\ cron = [t \in Ticks |-> IdleCron]
    /\ call = IdleCall
    /\ cleanDomain = NoInput
    /\ categorized = NoLinks
    /\ front = NoScans
    /\ completedWrites = {}

\* invocations are interchangeable: number them in the order they begin
NextIdle(f, i) == f[i].pc = "idle" /\ (IF i = 1 THEN TRUE ELSE f[i - 1].pc # "idle")

InFlight(f) == {i \in DOMAIN f : f[i].pc \notin {"idle", "done"}}

BrandsOf(domain) == {b \in 1..Len(brands) : brands[b].primary_domain = domain}

Max(S) == CHOOSE x \in S : \A y \in S : y <= x

(***************************************************************************)
(* POST /brand-discovery: handleBrandDiscovery, processUnifiedBrandDiscovery*)
(* and startAsyncBrandPipeline, one action per await.                      *)
(***************************************************************************)
Finish(r, success, brand, error) ==
    [IdleReq EXCEPT !.pc = "done", !.success = success, !.brand = brand,
                    !.error = error]

\* a run that goes on to the brand lookup without an extract job
StartDiscoveryGoesOn(r) ==
    /\ NextIdle(req, r)
    /\ \E raw \in RawDomains :
          req' = [req EXCEPT ![r] = [IdleReq EXCEPT !.pc = "lookup",
                                        !.domain = normalizeUrl(raw)]]
    /\ UNCHANGED <<call, cleanDomain, categorized, front, tables, clock, extractJobs, batchJobs,
                   wh, cron, completedWrites>>

\* normalizeUrl, then startAsyncBrandExtraction: a job id, or null
StartDiscovery(r) ==
    /\ NextIdle(req, r)
    /\ \E raw \in RawDomains, started \in BOOLEAN :
          LET domain == normalizeUrl(raw) IN
          /\ IF started
             THEN /\ extractJobs' = Append(extractJobs,
                                      [status |-> "processing", data |-> EmptyData])
                  /\ req' = [req EXCEPT ![r] = [IdleReq EXCEPT !.pc = "lookup",
                                !.domain = domain,
                                !.extractJobId = Len(extractJobs) + 1]]
             ELSE /\ extractJobs' = extractJobs
                  /\ req' = [req EXCEPT ![r] =
                         Finish(r, "false", 0, "Failed to start brand extraction")]
    /\ UNCHANGED <<call, cleanDomain, categorized, front, tables, clock, batchJobs, wh, cron,
                   completedWrites>>

\* select * from brands where primary_domain = domain and is_public and
\* owner_id is null order by created_at desc limit 1
ExistingBrand(domain) ==
    IF BrandsOf(domain) = {} THEN 0 ELSE Max(BrandsOf(domain))

LookupBrand(r) ==
    /\ req[r].pc = "lookup"
    /\ LET existing == ExistingBrand(req[r].domain) IN
       req' = [req EXCEPT ![r].existing = existing,
                          ![r].pc = IF existing # 0 THEN "update" ELSE "insert"]
    /\ UNCHANGED <<call, cleanDomain, categorized, front, tables, clock, extractJobs, batchJobs, wh, cron,
                   completedWrites>>

\* update brands ... where id = existingBrand.id; an update error falls
\* through to the insert
UpdateBrand(r) ==
    /\ req[r].pc = "update"
    /\ \E ok \in BOOLEAN :
          IF ok
          THEN /\ brands' = [brands EXCEPT ![req[r].existing] =
                      Updated(@, PlaceholderFields(req[r].domain, req[r].extractJobId))]
               /\ req' = [req EXCEPT ![r].brand = req[r].existing,
                                     ![r].pc = "mapping"]
          ELSE /\ brands' = brands
               /\ req' = [req EXCEPT ![r].pc = "insert"]
    /\ UNCHANGED <<call, cleanDomain, categorized, front, mappings, urls, bucket, clock,
                   extractJobs, batchJobs, wh, cron, completedWrites>>

\* insert into brands; a create error is thrown to the catch
InsertBrand(r) ==
    /\ req[r].pc = "insert"
    /\ \E ok \in BOOLEAN :
          IF ok
          THEN /\ brands' = Append(brands,
                      NewBrand(req[r].domain,
                               PlaceholderFields(req[r].domain, req[r].extractJobId)))
               /\ req' = [req EXCEPT ![r].brand = Len(brands) + 1,
                                     ![r].pc = "mapping"]
          ELSE /\ brands' = brands
               /\ req' = [req EXCEPT ![r] = Finish(r, "false", 0, "createError")]
    /\ UNCHANGED <<call, cleanDomain, categorized, front, mappings, urls, bucket, clock,
                   extractJobs, batchJobs, wh, cron, completedWrites>>

\* the columns the upsert sets; the other columns of an existing row stay
MappingUpsert(row) ==
    [row EXCEPT !.status = "processing",
                !.progress_percentage = ProgressCreated,
                !.current_step = Step("Worker processing - Discovering URLs...", 0, 0)]

\* upsert into playground_url_mappings on conflict (brand_id, domain)
UpsertMapping(r) ==
    /\ req[r].pc = "mapping"
    /\ \E ok \in BOOLEAN :
          IF ok
          THEN /\ mappings' = [mappings EXCEPT ![req[r].brand] = MappingUpsert(@)]
               /\ req' = [req EXCEPT ![r].pc = "map"]
          ELSE /\ mappings' = mappings
               /\ req' = [req EXCEPT ![r] =
                      Finish(r, "false", 0, "Failed to create progress tracking")]
    /\ UNCHANGED <<call, cleanDomain, categorized, front, brands, urls, bucket, clock, extractJobs, batchJobs, wh, cron,
                   completedWrites>>

\* firecrawl.map: links, no links (an error result), or an exception
MapUrls(r) ==
    /\ req[r].pc = "map"
    /\ \/ \E links \in MapResults :
             req' = [req EXCEPT ![r].links = links,
                        ![r].error = IF links = <<>>
                                     THEN "No URLs discovered during mapping"
                                     ELSE None,
                        ![r].pc = IF links = <<>> THEN "markfailed" ELSE "store"]
       \/ req' = [req EXCEPT ![r].error = "map threw", ![r].pc = "markfailed"]
    /\ UNCHANGED <<call, cleanDomain, categorized, front, tables, clock, extractJobs, batchJobs, wh, cron,
                   completedWrites>>

\* storeDiscoveredUrls, the upsert on conflict (brand_id, url): every link
\* becomes a row in status discovered; an upsert error is only logged
StoreUrls(r) ==
    /\ req[r].pc = "store"
    /\ \E ok \in BOOLEAN :
          urls' = IF ok
                  THEN [urls EXCEPT ![req[r].brand] =
                           [u \in Urls |-> IF u \in UrlsOf(req[r].links)
                                           THEN "discovered" ELSE @[u]]]
                  ELSE urls
    /\ req' = [req EXCEPT ![r].pc = "counts"]
    /\ UNCHANGED <<call, cleanDomain, categorized, front, brands, mappings, bucket, clock,
                   extractJobs, batchJobs, wh, cron, completedWrites>>

MappingCounts(row, n) ==
    IF row.status = "absent" THEN row
    ELSE [row EXCEPT !.status = "mapping_urls",
                     !.progress_percentage = ProgressMapped,
                     !.current_step = Step("Discovered n URLs, starting async scraping...", n, 0)]

\* storeDiscoveredUrls, the update of the mapping with the category counts
UpdateMappingCounts(r) ==
    /\ req[r].pc = "counts"
    /\ mappings' = [mappings EXCEPT ![req[r].brand] =
                       MappingCounts(@, Len(req[r].links))]
    /\ req' = [req EXCEPT ![r].pc = "batch"]
    /\ UNCHANGED <<call, cleanDomain, categorized, front, brands, urls, bucket, clock,
                   extractJobs, batchJobs, wh, cron, completedWrites>>

\* the URLs handed to startBatchScrape
SelectedUrls(links) ==
    UrlsOf(selectTopUrls(categorizeUrls(links), MaxPerCategory))

\* firecrawl.startBatchScrape: a job with the webhook metadata baked in, no
\* job id, or an exception
StartBatch(r) ==
    /\ req[r].pc = "batch"
    /\ \/ /\ batchJobs' = Append(batchJobs,
                 [req |-> r, brandId |-> req[r].brand, domain |-> req[r].domain,
                  mappingId |-> req[r].brand, urls |-> SelectedUrls(req[r].links)])
          /\ req' = [req EXCEPT ![r] = Finish(r, "true", req[r].brand, None)]
       \/ /\ batchJobs' = batchJobs
          /\ \E e \in {"BatchScrape failed: No job ID returned", "startBatchScrape threw"} :
                req' = [req EXCEPT ![r].error = e, ![r].pc = "markfailed"]
    /\ UNCHANGED <<call, cleanDomain, categorized, front, tables, clock, extractJobs, wh, cron,
                   completedWrites>>

\* the update without the status column
MappingFailedMessageOnly(row, error) ==
    IF row.status = "absent" THEN row ELSE [row EXCEPT !.error_message = error]

MappingFailed(row, error) ==
    IF row.status = "absent" THEN row
    ELSE [row EXCEPT !.status = "failed", !.error_message = error]

\* pipeline.ts: asyncResult.error marks the mapping failed; success stays true
MarkMappingFailed(r) ==
    /\ req[r].pc = "markfailed"
    /\ mappings' = [mappings EXCEPT ![req[r].brand] = MappingFailed(@, req[r].error)]
    /\ req' = [req EXCEPT ![r] = Finish(r, "true", req[r].brand, req[r].error)]
    /\ UNCHANGED <<call, cleanDomain, categorized, front, brands, urls, bucket, clock,
                   extractJobs, batchJobs, wh, cron, completedWrites>>


(***************************************************************************)
(* POST /webhook/firecrawl: the request, verifyWebhookSignature and        *)
(* parseFirecrawlEvent.                                                    *)
(***************************************************************************)
Secret == "FIRECRAWL_WEBHOOK_SECRET"

\* HMAC-SHA256 as an injective function of key and message, in hex
Hmac(key, message) == [key |-> key, of |-> message, len |-> HashLength]

NoEvent ==
    [type |-> None, id |-> 0, brandId |-> 0, domain |-> <<>>, mappingId |-> 0,
     jobType |-> None, hasData |-> FALSE, url |-> None, data |-> EmptyData,
     error |-> None]

\* a raw body: JSON or not, the event it parses to, and a byte that parsing ignores
Body(event) == [json |-> TRUE, event |-> event, salt |-> 0]

Garbage == [json |-> FALSE, event |-> NoEvent, salt |-> 0]

\* the header X-Firecrawl-Signature, split at "=": algorithm, hash, more parts
Header(algorithm, hasHash, hash, extra) ==
    [present |-> TRUE, algorithm |-> algorithm, hasHash |-> hasHash,
     hash |-> hash, extra |-> extra]

NoHeader == [Header(None, FALSE, Hmac(None, Garbage), FALSE) EXCEPT !.present = FALSE]

GoodHeaders(body) ==
    { Header("sha256", TRUE, Hmac(Secret, body), FALSE),
      Header("sha256", TRUE, Hmac(Secret, body), TRUE) }      \* sha256=<hex>=x

BadHeaders(body) ==
    { NoHeader,
      Header("sha1", TRUE, Hmac(Secret, body), FALSE),
      Header("sha256", FALSE, Hmac(Secret, body), FALSE),     \* no "=" at all
      Header("sha256", TRUE, Hmac("another secret", body), FALSE),
      Header("sha256", TRUE, Hmac(Secret, [body EXCEPT !.salt = 1]), FALSE),
      Header("sha256", TRUE, [Hmac(Secret, body) EXCEPT !.len = HashLength - 1], FALSE) }

\* a verification that compares the lengths of the two hashes only
verifyLengthOnly(request, webhookSecret) ==
    IF ~request.header.present THEN FALSE
    ELSE IF request.header.algorithm # "sha256" THEN FALSE
    ELSE IF ~request.header.hasHash THEN FALSE
    ELSE request.header.hash.len = Hmac(webhookSecret, request.body).len

\* verify.ts verifyWebhookSignature: isValid
verifyWebhookSignature(request, webhookSecret) ==
    IF ~request.header.present THEN FALSE
    ELSE IF request.header.algorithm # "sha256" THEN FALSE
    ELSE IF ~request.header.hasHash THEN FALSE      \* hash.length throws, caught
    ELSE LET expectedSignature == Hmac(webhookSecret, request.body)
         IN /\ request.header.hash.len = expectedSignature.len
            /\ request.header.hash = expectedSignature

\* verify.ts parseFirecrawlEvent: the event, or null
Parses(body) == body.json /\ body.event.type # None /\ body.event.id # 0

StartedTypes   == {"crawl.started", "batch_scrape.started"}
PageTypes      == {"crawl.page", "batch_scrape.page"}
CompletedTypes == {"crawl.completed", "batch_scrape.completed"}
FailedTypes    == {"crawl.failed", "batch_scrape.failed", "extract.failed"}
HandledTypes   == StartedTypes \cup PageTypes \cup CompletedTypes \cup FailedTypes
                    \cup {"extract.completed"}

\* the events of batch-scrape job j, carrying the metadata baked into the job
JobEvents(j) ==
    LET job == batchJobs[j]
        base == [NoEvent EXCEPT !.id = j, !.brandId = job.brandId,
                                !.domain = job.domain, !.mappingId = job.mappingId]
    IN   {[base EXCEPT !.type = t] : t \in StartedTypes \cup CompletedTypes}
    \cup {[base EXCEPT !.type = t, !.hasData = TRUE, !.url = u] :
              t \in PageTypes, u \in job.urls}
    \cup {[base EXCEPT !.type = "batch_scrape.page", !.hasData = d] : d \in BOOLEAN}
    \cup {[base EXCEPT !.type = t, !.error = e] :
              t \in {"crawl.failed", "batch_scrape.failed"},
              e \in {None, "scrape failed"}}
    \cup {[base EXCEPT !.type = "batch_scrape.unknown"]}

\* the same events with one field of the metadata missing
Degraded(ev) ==
    { [ev EXCEPT !.brandId = 0], [ev EXCEPT !.domain = <<>>],
      [ev EXCEPT !.mappingId = 0] }

\* extract events for brand b, as a provider webhook on the extract job sends them
ExtractEvents(b) ==
    LET base == [NoEvent EXCEPT !.id = IF brands[b].metadata.extractJobId # 0
                                       THEN brands[b].metadata.extractJobId ELSE 1,
                                !.brandId = b,
                                !.domain = brands[b].primary_domain]
    IN   {[base EXCEPT !.type = "extract.completed", !.jobType = jt,
                       !.hasData = TRUE, !.data = d] :
              jt \in {None, "brandExtraction"}, d \in ExtractedDataSet}
    \cup {[base EXCEPT !.type = "extract.completed", !.jobType = "brandExtraction"]}
    \cup {[base EXCEPT !.type = "extract.failed", !.error = "extract failed",
                       !.mappingId = m] : m \in {0, b}}

Events ==
    LET jobEvents == UNION {JobEvents(j) : j \in 1..Len(batchJobs)}
        extractEvents == UNION {ExtractEvents(b) : b \in 1..Len(brands)}
        complete == {e \in jobEvents \cup extractEvents :
                        /\ e.type \in HandledTypes \ {"crawl.started", "crawl.page",
                                                      "crawl.completed", "crawl.failed"}
                        /\ e.error = None
                        /\ e.hasData \/ e.type \notin PageTypes \cup {"extract.completed"}
                        /\ e.jobType = None => e.type # "extract.completed"
                        /\ e.data \in {FullData, EmptyData}}
    IN jobEvents \cup extractEvents \cup UNION {Degraded(ev) : ev \in complete}

Bodies ==
    {Body(ev) : ev \in Events} \cup {Garbage, Body([NoEvent EXCEPT !.id = 1])}

WebhookRequests ==
    {[header |-> h, body |-> b] : b \in Bodies, h \in {NoHeader}} \cup
    UNION {{[header |-> h, body |-> b] : h \in GoodHeaders(b) \cup BadHeaders(b)} :
              b \in Bodies}

\* what the claim calls a matching signature: the algorithm is sha256 and the
\* hash part of the header is the HMAC of the raw body under the shared secret
Signed(request) ==
    /\ request.header.present
    /\ request.header.algorithm = "sha256"
    /\ request.header.hasHash
    /\ request.header.hash = Hmac(Secret, request.body)

\* a dispatcher that enters the switch without the test on brandId and domain
RouteWithoutMetadataTest(request) ==
    IF ~verifyWebhookSignature(request, Secret) THEN "401"
    ELSE IF ~Parses(request.body) THEN "400"
    ELSE LET ev == request.body.event IN
         IF ev.type \in StartedTypes THEN "started"
         ELSE IF ev.type \in PageTypes THEN "page"
         ELSE IF ev.type \in CompletedTypes THEN "completed"
         ELSE IF ev.type = "extract.completed" THEN "extract"
         ELSE IF ev.type \in FailedTypes THEN "failed"
         ELSE "ignored"

\* handleWebhook / handleFirecrawlWebhook: what becomes of a request
\* a switch whose default branch is the failure handler
RouteUnknownAsFailed(request) ==
    IF ~verifyWebhookSignature(request, Secret) THEN "401"
    ELSE IF ~Parses(request.body) THEN "400"
    ELSE IF request.body.event.brandId = 0 \/ request.body.event.domain = <<>>
    THEN "ignored"
    ELSE "failed"

Route(request) ==
    IF ~verifyWebhookSignature(request, Secret) THEN "401"
    ELSE IF ~Parses(request.body) THEN "400"
    ELSE LET ev == request.body.event IN
         IF ev.brandId = 0 \/ ev.domain = <<>> THEN "ignored"
         ELSE IF ev.type \in StartedTypes THEN "started"
         ELSE IF ev.type \in PageTypes THEN "page"
         ELSE IF ev.type \in CompletedTypes THEN "completed"
         ELSE IF ev.type = "extract.completed" THEN "extract"
         ELSE IF ev.type \in FailedTypes THEN "failed"
         ELSE "ignored"

\* the invocation has answered; the body is parsed only once the signature
\* has been accepted
Done(w, request, resp) ==
    [IdleWh EXCEPT !.pc = "done", !.resp = resp, !.sigGood = Signed(request),
                   !.parsed = (resp # 401 /\ Parses(request.body)),
                   !.unhandled = (resp = 200
                                    /\ request.body.event.type \notin HandledTypes)]

InHandler(w, request, kind, pc) ==
    LET ev == request.body.event IN
    [IdleWh EXCEPT !.pc = pc, !.kind = kind, !.id = ev.id, !.brandId = ev.brandId,
                   !.mappingId = ev.mappingId, !.domain = ev.domain,
                   !.error = ev.error,
                   !.unhandled = (ev.type \notin HandledTypes),
                   !.sigGood = Signed(request), !.parsed = TRUE]

\* 401 on a bad signature, 400 on a body that is no event
WebhookRejected(w, request) ==
    /\ wh' = [wh EXCEPT ![w] =
           Done(w, request, IF verifyWebhookSignature(request, Secret)
                            THEN 400 ELSE 401)]
    /\ UNCHANGED <<call, cleanDomain, categorized, front, tables, clock, extractJobs, batchJobs,
                   req, cron, completedWrites>>

\* 200 without any write: metadata without brandId or domain, unhandled type
WebhookIgnored(w, request) ==
    /\ wh' = [wh EXCEPT ![w] = Done(w, request, 200)]
    /\ UNCHANGED <<call, cleanDomain, categorized, front, tables, clock, extractJobs, batchJobs,
                   req, cron, completedWrites>>

MappingStarted(row, jobId) ==
    IF row.status = "absent" THEN row
    ELSE [row EXCEPT !.status = "scraping_content",
                     !.progress_percentage = ProgressStarted,
                     !.current_step = Step("Firecrawl job started", jobId, 0)]

handleJobStarted(w, request) ==
    LET ev == request.body.event IN
    /\ mappings' = IF ev.mappingId # 0
                   THEN [mappings EXCEPT ![ev.mappingId] = MappingStarted(@, ev.id)]
                   ELSE mappings
    /\ wh' = [wh EXCEPT ![w] = Done(w, request, 200)]
    /\ UNCHANGED <<call, cleanDomain, categorized, front, brands, urls, bucket, clock, extractJobs, batchJobs, req, cron,
             completedWrites>>

\* update brand_urls set status = ... where brand_id = b and url = u
SetUrl(b, u, status) ==
    IF urls[b][u] = "absent" THEN urls ELSE [urls EXCEPT ![b][u] = status]

\* the statuses a handler has written to its row so far
Logged(w, b, u, status) ==
    IF urls[b][u] = "absent" THEN wh[w].log ELSE Append(wh[w].log, status)

\* handlePageScraped up to its first write: the row becomes scraped
handlePageScraped(w, request) ==
    LET ev == request.body.event IN
    /\ IF ~ev.hasData \/ ev.url = None
       THEN /\ urls' = urls
            /\ wh' = [wh EXCEPT ![w] = Done(w, request, 200)]
       ELSE /\ urls' = SetUrl(ev.brandId, ev.url, "scraped")
            /\ wh' = [wh EXCEPT ![w] =
                   [InHandler(w, request, "page", "uploading") EXCEPT
                       !.url = ev.url,
                       !.first = urls[ev.brandId][ev.url],
                       !.log = Logged(w, ev.brandId, ev.url, "scraped")]]
    /\ UNCHANGED <<call, cleanDomain, categorized, front, brands, mappings, bucket, clock, extractJobs, batchJobs, req, cron,
             completedWrites>>

\* uploadPageToR2: mark as uploading
MarkUploading(w) ==
    /\ wh[w].pc = "uploading"
    /\ urls' = SetUrl(wh[w].brandId, wh[w].url, "uploading")
    /\ wh' = [wh EXCEPT ![w].pc = "upload",
                        ![w].log = Logged(w, wh[w].brandId, wh[w].url, "uploading")]
    /\ UNCHANGED <<call, cleanDomain, categorized, front, brands, mappings, bucket, clock,
                   extractJobs, batchJobs, req, cron, completedWrites>>

\* generateR2Key: brands/{domain}/content/{category}/{filename}-{Date.now()}.md
generateR2Key(domain, url, now) == [domain |-> domain, url |-> url, timestamp |-> now]

\* the handler has returned: 200
Returned(w) ==
    [IdleWh EXCEPT !.pc = "done", !.sigGood = wh[w].sigGood,
                   !.parsed = wh[w].parsed, !.resp = 200]

\* uploadPageToR2: uploader.uploadBrandContent with overwrite: the put stores
\* the object, or is rejected (success false), or the call throws into the
\* catch of uploadPageToR2
UploadToR2(w) ==
    /\ wh[w].pc = "upload"
    /\ \/ \E dt \in {0, 1} :
             /\ clock' = clock + dt
             /\ bucket' = bucket \cup {generateR2Key(wh[w].domain, wh[w].url, clock')}
             /\ wh' = [wh EXCEPT ![w].pc = "result", ![w].r2 = "stored"]
       \/ /\ UNCHANGED <<call, cleanDomain, categorized, front, bucket, clock>>
          /\ wh' = [wh EXCEPT ![w].pc = "result", ![w].r2 = "rejected"]
       \/ /\ UNCHANGED <<call, cleanDomain, categorized, front, bucket, clock>>
          /\ wh' = [wh EXCEPT ![w] = Returned(w)]
    /\ UNCHANGED <<call, cleanDomain, categorized, front, brands, mappings, urls, extractJobs,
                   batchJobs, req, cron, completedWrites>>

\* an upload step that marks the row uploaded whatever the uploader returned
UploadStatusIgnoringResult(r2) == "uploaded"

\* uploadResult.success && uploadResult.results[0]?.success
UploadStatus(r2) == IF r2 = "stored" THEN "uploaded" ELSE "failed"

\* uploadPageToR2: mark as uploaded or failed
MarkUploadResult(w) ==
    /\ wh[w].pc = "result"
    /\ urls' = SetUrl(wh[w].brandId, wh[w].url, UploadStatus(wh[w].r2))
    /\ wh' = [wh EXCEPT ![w] = Returned(w)]
    /\ UNCHANGED <<call, cleanDomain, categorized, front, brands, mappings, bucket, clock,
                   extractJobs, batchJobs, req, cron, completedWrites>>

\* statusCounts[status] || 0
Count(snap, status) == Cardinality({u \in Urls : snap[u] = status})

\* handleJobCompleted: select status from brand_urls where brand_id = b
handleJobCompleted(w, request) ==
    LET ev == request.body.event IN
    /\ wh' = [wh EXCEPT ![w] =
           [InHandler(w, request, "completed", "summary") EXCEPT
               !.snap = urls[ev.brandId]]]
    /\ UNCHANGED <<call, cleanDomain, categorized, front, tables, clock, extractJobs, batchJobs,
                   req, cron, completedWrites>>

\* a summary that adds the counts to the numbers of the summary already there
MappingCompletedRunning(row, uploaded, failed) ==
    IF row.status = "absent" THEN row
    ELSE LET summed == row.current_step.kind = "pages uploaded to AI Search! (failed)"
         IN [row EXCEPT !.status = "completed",
                        !.progress_percentage = ProgressCompleted,
                        !.current_step =
                            Step("pages uploaded to AI Search! (failed)",
                                 uploaded + (IF summed THEN row.current_step.a ELSE 0),
                                 failed + (IF summed THEN row.current_step.b ELSE 0))]

\* handleJobCompleted: the columns of the update
MappingCompleted(row, uploaded, failed) ==
    IF row.status = "absent" THEN row
    ELSE [row EXCEPT !.status = "completed",
                     !.progress_percentage = ProgressCompleted,
                     !.current_step = Step("pages uploaded to AI Search! (failed)",
                                           uploaded, failed)]

\* handleJobCompleted: the update of the mapping
JobCompletedWrite(w) ==
    /\ wh[w].pc = "summary"
    /\ mappings' = IF wh[w].mappingId # 0
                   THEN [mappings EXCEPT ![wh[w].mappingId] =
                            MappingCompleted(@, Count(wh[w].snap, "uploaded"),
                                                Count(wh[w].snap, "failed"))]
                   ELSE mappings
    /\ completedWrites' =
          IF wh[w].mappingId # 0 /\ mappings[wh[w].mappingId].status # "absent"
          THEN completedWrites \cup
                  {[w |-> w, brandId |-> wh[w].brandId, mappingId |-> wh[w].mappingId,
                    snap |-> wh[w].snap, row |-> mappings'[wh[w].mappingId]]}
          ELSE completedWrites
    /\ wh' = [wh EXCEPT ![w] = Returned(w)]
    /\ UNCHANGED <<call, cleanDomain, categorized, front, brands, urls, bucket, clock,
                   extractJobs, batchJobs, req, cron>>

\* handleExtractCompleted: update brands ... where primary_domain = domain and
\* is_public and owner_id is null
handleExtractCompleted(w, request) ==
    LET ev == request.body.event IN
    /\ brands' = IF ev.jobType = "brandExtraction" /\ ev.hasData
                 THEN [b \in 1..Len(brands) |->
                         IF brands[b].primary_domain = ev.domain
                         THEN Updated(brands[b],
                                      WebhookExtractFields(ev.domain, ev.data))
                         ELSE brands[b]]
                 ELSE brands
    /\ wh' = [wh EXCEPT ![w] = Done(w, request, 200)]
    /\ UNCHANGED <<call, cleanDomain, categorized, front, mappings, urls, bucket, clock, extractJobs, batchJobs, req, cron,
             completedWrites>>

\* event.error || "Firecrawl job failed"
ErrorOr(error, default) == IF error = None THEN default ELSE error

\* handleJobFailed up to its first write: the mapping becomes failed
handleJobFailed(w, request) ==
    LET ev == request.body.event IN
    /\ mappings' = IF ev.mappingId # 0
                   THEN [mappings EXCEPT ![ev.mappingId] =
                           MappingFailed(@, ErrorOr(ev.error, "Firecrawl job failed"))]
                   ELSE mappings
    /\ wh' = [wh EXCEPT ![w] = InHandler(w, request, "failed", "pending")]
    /\ UNCHANGED <<call, cleanDomain, categorized, front, brands, urls, bucket, clock, extractJobs, batchJobs, req, cron,
             completedWrites>>

\* an update without the filter on status
PendingStatusesAll == {"discovered", "scraping", "scraped", "uploading", "uploaded"}

\* the statuses handleJobFailed selects as pending
PendingStatuses == {"discovered", "scraping"}

\* handleJobFailed: mark any pending URLs as failed
FailPendingUrls(w) ==
    /\ wh[w].pc = "pending"
    /\ urls' = [urls EXCEPT ![wh[w].brandId] =
                   [u \in Urls |-> IF @[u] \in PendingStatuses THEN "failed" ELSE @[u]]]
    /\ wh' = [wh EXCEPT ![w] = Returned(w)]
    /\ UNCHANGED <<call, cleanDomain, categorized, front, brands, mappings, bucket, clock,
                   extractJobs, batchJobs, req, cron, completedWrites>>

Routes ==
    {"401", "400", "ignored", "started", "page", "completed", "extract", "failed"}

\* the routes of the events of a batch-scrape job
BatchRoutes == Routes \ {"extract"}

\* handleWebhook and the switch of handleFirecrawlWebhook, for the requests
\* that take one of the given routes
handleWebhook(w, routes) ==
    /\ NextIdle(wh, w)
    /\ \E request \in WebhookRequests :
          LET route == Route(request) IN
          /\ route \in routes
          /\ CASE route \in {"401", "400"} -> WebhookRejected(w, request)
               [] route = "ignored"   -> WebhookIgnored(w, request)
               [] route = "started"   -> handleJobStarted(w, request)
               [] route = "page"      -> handlePageScraped(w, request)
               [] route = "completed" -> handleJobCompleted(w, request)
               [] route = "extract"   -> handleExtractCompleted(w, request)
               [] route = "failed"    -> handleJobFailed(w, request)

(***************************************************************************)
(* The provider's extract job, and the cron reconciler.                    *)
(***************************************************************************)
ExtractJobFinishes(j) ==
    /\ j \in 1..Len(extractJobs)
    /\ extractJobs[j].status = "processing"
    /\ \/ \E d \in ExtractedDataSet :
             extractJobs' = [extractJobs EXCEPT ![j] =
                                [status |-> "completed", data |-> d]]
       \/ extractJobs' = [extractJobs EXCEPT ![j].status = "failed"]
    /\ UNCHANGED <<call, cleanDomain, categorized, front, tables, clock, batchJobs, req, wh, cron,
                   completedWrites>>

RECURSIVE PendingFrom(_)
\* brands in extracting with an extractJobId, oldest first
PendingFrom(b) ==
    IF b > Len(brands) THEN <<>>
    ELSE (IF brands[b].crawl_status = "extracting"
             /\ brands[b].metadata.extractJobId # 0
          THEN <<[id |-> b, primary_domain |-> brands[b].primary_domain,
                  extractJobId |-> brands[b].metadata.extractJobId]>>
          ELSE <<>>) \o PendingFrom(b + 1)

\* processPendingExtractJobs: the select, limit 10
CronSelect(t) ==
    /\ NextIdle(cron, t)
    /\ LET pendingBrands == Take(PendingFrom(1), CronLimit) IN
       cron' = [cron EXCEPT ![t] =
                   IF pendingBrands = <<>> THEN [IdleCron EXCEPT !.pc = "done"]
                   ELSE [IdleCron EXCEPT !.pc = "loop", !.pending = pendingBrands]]
    /\ UNCHANGED <<call, cleanDomain, categorized, front, tables, clock, extractJobs, batchJobs, req, wh,
                   completedWrites>>

\* a loop whose try encloses the for: an exception ends the tick
CronProcessAborting(t) ==
    /\ cron[t].pc = "loop"
    /\ LET brand == Head(cron[t].pending)
           job == extractJobs[brand.extractJobId]
       IN \E threw \in BOOLEAN :
             /\ brands' =
                   IF threw THEN brands
                   ELSE IF job.status = "completed"
                   THEN [brands EXCEPT ![brand.id] =
                            Updated(@, CronExtractFields(brand.primary_domain, job.data))]
                   ELSE IF job.status = "failed"
                   THEN [brands EXCEPT ![brand.id].crawl_status = "failed"]
                   ELSE brands
             /\ cron' = [cron EXCEPT
                    ![t].pc = IF threw \/ Tail(cron[t].pending) = <<>> THEN "done"
                              ELSE "loop",
                    ![t].pending = IF threw THEN <<>> ELSE Tail(cron[t].pending),
                    ![t].threw = threw]
    /\ UNCHANGED <<call, cleanDomain, categorized, front, mappings, urls, bucket, clock,
                   extractJobs, batchJobs, req, wh, completedWrites>>

\* one iteration of the for loop: getExtractStatus (which may throw into the
\* per-brand catch) and the update by id
CronProcess(t) ==
    /\ cron[t].pc = "loop"
    /\ LET brand == Head(cron[t].pending)
           job == extractJobs[brand.extractJobId]
       IN \E threw \in BOOLEAN :
             /\ brands' =
                   IF threw THEN brands
                   ELSE IF job.status = "completed"
                   THEN [brands EXCEPT ![brand.id] =
                            Updated(@, CronExtractFields(brand.primary_domain, job.data))]
                   ELSE IF job.status = "failed"
                   THEN [brands EXCEPT ![brand.id].crawl_status = "failed"]
                   ELSE brands
             /\ cron' = [cron EXCEPT
                    ![t].pc = IF Tail(cron[t].pending) = <<>> THEN "done" ELSE "loop",
                    ![t].pending = Tail(cron[t].pending),
                    ![t].threw = threw]
    /\ UNCHANGED <<call, cleanDomain, categorized, front, mappings, urls, bucket, clock,
                   extractJobs, batchJobs, req, wh, completedWrites>>

(***************************************************************************)
(* R2ContentUploader.uploadBrandContent: the content items are uploaded in *)
(* batches of BATCH_SIZE; the uploads of a batch run concurrently and are  *)
(* joined by Promise.allSettled.  Every await of uploadSingleContent (the  *)
(* head, the put) is one step.                                             *)
(***************************************************************************)
WaitingItem == [pc |-> "waiting", key |-> generateR2Key(<<>>, None, 0), outcome |-> None]

\* a batch of one item more than BATCH_SIZE
BatchOfOneMore(i, n) == {k \in 1..n : i < k /\ k <= i + BATCH_SIZE + 1}

\* the indices of the batch that starts after i items
BatchOf(i, n) == {k \in 1..n : i < k /\ k <= i + BATCH_SIZE}

\* the loop of uploadBrandContent starts a batch: every uploadSingleContent
\* of the batch runs to its first await, so it has read Date.now() for its
\* key; a later batch starts after the delay between batches
BeginBatch ==
    /\ call.pc = "loop"
    /\ \E dt \in (IF call.i = 0 THEN {0, 1} ELSE {1}) :
          /\ clock' = clock + dt
          /\ call' = [call EXCEPT
                 !.pc = "batch",
                 !.items = [k \in 1..Len(call.content) |->
                    IF k \in BatchOf(call.i, Len(call.content))
                    THEN [pc |-> IF call.overwrite THEN "put" ELSE "head",
                          key |-> generateR2Key(call.domain, call.content[k], clock'),
                          outcome |-> None]
                    ELSE call.items[k]]]
    /\ UNCHANGED <<cleanDomain, categorized, front, brands, mappings, urls, bucket, extractJobs, batchJobs, req, wh,
                   cron, completedWrites>>

Settled(item, outcome) == [item EXCEPT !.pc = "settled", !.outcome = outcome]

\* uploadSingleContent without overwrite: r2Bucket.head(r2Key); an existing
\* object is success without a put; an exception goes to the catch
HeadItem(k) ==
    /\ call.pc = "batch"
    /\ k \in 1..Len(call.items)
    /\ call.items[k].pc = "head"
    /\ \/ call' = [call EXCEPT !.items[k] =
                      IF call.items[k].key \in bucket THEN Settled(@, "found")
                      ELSE [@ EXCEPT !.pc = "put"]]
       \/ call' = [call EXCEPT !.items[k] = Settled(@, "failed")]
    /\ UNCHANGED <<cleanDomain, categorized, front, brands, mappings, urls, bucket, clock, extractJobs, batchJobs, req,
                   wh, cron, completedWrites>>

\* uploadSingleContent: r2Bucket.put(r2Key, ...) stores the object, or throws
\* into the catch
PutItem(k) ==
    /\ call.pc = "batch"
    /\ k \in 1..Len(call.items)
    /\ call.items[k].pc = "put"
    /\ \/ /\ bucket' = bucket \cup {call.items[k].key}
          /\ call' = [call EXCEPT !.items[k] = Settled(@, "stored")]
       \/ /\ bucket' = bucket
          /\ call' = [call EXCEPT !.items[k] = Settled(@, "failed")]
    /\ UNCHANGED <<cleanDomain, categorized, front, brands, mappings, urls, clock, extractJobs, batchJobs, req, wh,
                   cron, completedWrites>>

\* every settled upload reported as a success
ResultEntryAllSuccess(url, item) ==
    [url |-> url, r2Key |-> item.key, success |-> TRUE]

\* the entry pushed to response.results for one settled upload
ResultEntry(url, item) ==
    IF item.outcome \in {"stored", "found"}
    THEN [url |-> url, r2Key |-> item.key, success |-> TRUE]
    ELSE [url |-> url, r2Key |-> generateR2Key(<<>>, None, 0), success |-> FALSE]

RECURSIVE BatchEntries(_, _, _)
\* batchResults.forEach: the entries of items from..to, in input order
BatchEntries(content, items, range) ==
    IF range = {} THEN <<>>
    ELSE LET k == CHOOSE x \in range : \A y \in range : x <= y
         IN <<ResultEntry(content[k], items[k])>>
               \o BatchEntries(content, items, range \ {k})

Successes(entries) == Cardinality({j \in 1..Len(entries) : entries[j].success})

\* Promise.allSettled has resolved: the results of the batch are pushed and
\* counted; after the last batch the response is returned
JoinBatch ==
    /\ call.pc = "batch"
    /\ LET n == Len(call.content)
           batch == BatchOf(call.i, n)
           entries == BatchEntries(call.content, call.items, batch)
           successful == call.summary.successful + Successes(entries)
       IN /\ \A k \in batch : call.items[k].pc = "settled"
          /\ call' = [call EXCEPT
                 !.results = @ \o entries,
                 !.summary.successful = successful,
                 !.summary.failed = @ + Len(entries) - Successes(entries),
                 !.i = @ + BATCH_SIZE,
                 !.pc = IF call.i + BATCH_SIZE < n THEN "loop" ELSE "done",
                 !.success = IF call.i + BATCH_SIZE < n THEN @ ELSE successful > 0]
    /\ UNCHANGED <<cleanDomain, categorized, front, brands, mappings, urls, bucket, clock, extractJobs, batchJobs, req,
                   wh, cron, completedWrites>>

(***************************************************************************)
(* The reconciler alone, its invocations overlapping: the brands are the   *)
(* placeholder rows the discovery runs have inserted, their extract jobs   *)
(* running.                                                                *)
(***************************************************************************)
PlaceholderRow(b) ==
    NewBrand(normalizeUrl(<<"acme", ".", "com">>),
             PlaceholderFields(normalizeUrl(<<"acme", ".", "com">>), b))

InitCron ==
    \E n \in BrandIds :
       /\ brands = [b \in 1..n |-> PlaceholderRow(b)]
       /\ mappings = [b \in BrandIds |-> NoMapping]
       /\ urls = [b \in BrandIds |-> [u \in Urls |-> "absent"]]
       /\ bucket = {}
       /\ clock = 0
       /\ extractJobs = [b \in 1..n |-> [status |-> "processing", data |-> EmptyData]]
       /\ batchJobs = <<>>
       /\ req = [r \in Requests |-> IdleReq]
       /\ wh = [w \in Deliveries |-> IdleWh]
       /\ cron = [t \in 1..MaxOverlap |-> IdleCron]
       /\ call = IdleCall
       /\ cleanDomain = NoInput
       /\ categorized = NoLinks
       /\ front = NoScans
       /\ completedWrites = {}

NextCron ==
    \/ \E j \in BrandIds : ExtractJobFinishes(j)
    \/ \E t \in 1..MaxOverlap : CronSelect(t) \/ CronProcess(t)

SpecCron == InitCron /\ [][NextCron]_vars

(***************************************************************************)
(* The reconciler under repeated ticks: the scheduled handler starts       *)
(* processPendingExtractJobs again every minute.  Up to CronLimit older    *)
(* brands wait on extract jobs that stay unfinished; the job of the        *)
(* youngest brand may finish.  A tick is taken whenever it can be, and the *)
(* poll of each brand's job succeeds again and again.                      *)
(***************************************************************************)
InitTicks ==
    \E n \in 1..(CronLimit + 1) :
       /\ brands = [b \in 1..n |-> PlaceholderRow(b)]
       /\ mappings = [b \in BrandIds |-> NoMapping]
       /\ urls = [b \in BrandIds |-> [u \in Urls |-> "absent"]]
       /\ bucket = {}
       /\ clock = 0
       /\ extractJobs = [b \in 1..n |-> [status |-> "processing", data |-> EmptyData]]
       /\ batchJobs = <<>>
       /\ req = [r \in Requests |-> IdleReq]
       /\ wh = [w \in Deliveries |-> IdleWh]
       /\ cron = [t \in 1..MaxOverlap |-> IdleCron]
       /\ call = IdleCall
       /\ cleanDomain = NoInput
       /\ categorized = NoLinks
       /\ front = NoScans
       /\ completedWrites = {}

\* the scheduled handler: the next minute's invocation
scheduled(t) ==
    /\ cron[t].pc = "done"
    /\ cron' = [cron EXCEPT ![t] = IdleCron]
    /\ UNCHANGED <<call, cleanDomain, categorized, front, tables, clock, extractJobs, batchJobs, req, wh,
                   completedWrites>>

NextTicks ==
    \/ ExtractJobFinishes(Len(brands))
    \/ scheduled(1)
    \/ CronSelect(1)
    \/ CronProcess(1)

SpecTicks ==
    /\ InitTicks
    /\ [][NextTicks]_vars
    /\ WF_vars(scheduled(1))
    /\ WF_vars(CronSelect(1))
    /\ \A b \in 1..(CronLimit + 1) :
          SF_vars(CronProcess(1) /\ Head(cron[1].pending).id = b /\ ~cron'[1].threw)

(***************************************************************************)
(* normalizeUrl alone: handleBrandDiscovery cleans a domain, and the       *)
(* cleaned domain comes back as the domain of a later request.             *)
(***************************************************************************)
InitNormalize ==
    \E input \in NormalizeInputs :
       /\ brands = <<>>
       /\ mappings = [b \in BrandIds |-> NoMapping]
       /\ urls = [b \in BrandIds |-> [u \in Urls |-> "absent"]]
       /\ bucket = {}
       /\ clock = 0
       /\ extractJobs = <<>>
       /\ batchJobs = <<>>
       /\ req = [r \in Requests |-> IdleReq]
       /\ wh = [w \in Deliveries |-> IdleWh]
       /\ cron = [t \in Ticks |-> IdleCron]
       /\ call = IdleCall
       /\ cleanDomain = [input |-> input, results |-> <<>>]
       /\ categorized = NoLinks
       /\ front = NoScans
       /\ completedWrites = {}

\* cleanDomain = normalizeUrl(domain), of the input or of the last result
Normalize ==
    /\ Len(cleanDomain.results) < MaxCalls
    /\ cleanDomain' = [cleanDomain EXCEPT !.results =
           Append(@, normalizeUrl(IF @ = <<>> THEN cleanDomain.input
                                  ELSE @[Len(@)]))]
    /\ UNCHANGED <<brands, mappings, urls, bucket, clock, extractJobs, batchJobs,
                   req, wh, cron, call, categorized, front, completedWrites>>

SpecNormalize == InitNormalize /\ [][Normalize]_vars

(***************************************************************************)
(* The frontend route POST /api/playground/scan of one instance.  A        *)
(* promise is named by the request that created it; each promise is one    *)
(* fetch to the worker's /brand-discovery.                                 *)
(***************************************************************************)
\* POST up to its await of the processing promise: the body is read, the
\* domain cleaned, an entry of the cache for it deleted, the worker called
\* and the new promise cached; a body without a domain is answered 400
ScanPost(s) ==
    /\ NextIdle(front.scans, s)
    /\ \/ front' = [front EXCEPT !.scans[s].pc = "done", !.scans[s].resp = 400]
       \/ \E raw \in RawDomains :
             LET cleaned == normalizeUrl(raw) IN
             front' = [front EXCEPT
                 !.cache = {e \in @ : e.key # cleaned}
                              \cup {[key |-> cleaned, promise |-> s]},
                 !.fetches = @ \cup {[promise |-> s, domain |-> cleaned]},
                 !.scans[s] = [pc |-> "waiting", domain |-> cleaned,
                               promise |-> s, resp |-> 0]]
    /\ UNCHANGED <<brands, mappings, urls, bucket, clock, extractJobs, batchJobs,
                   req, wh, cron, call, cleanDomain, categorized, completedWrites>>

\* the awaited promise settles: the worker's answer is returned, or the fetch
\* failed and the outer catch answers 500; the finally sets the timer
WorkerResponds(s) ==
    /\ front.scans[s].pc = "waiting"
    /\ \E resp \in {200, 500} :
          front' = [front EXCEPT
              !.fetches = {f \in @ : f.promise # front.scans[s].promise},
              !.scans[s].pc = "timer", !.scans[s].resp = resp]
    /\ UNCHANGED <<brands, mappings, urls, bucket, clock, extractJobs, batchJobs,
                   req, wh, cron, call, cleanDomain, categorized, completedWrites>>

\* setTimeout(() => processingCache.delete(cleanDomain), 30000)
CacheExpires(s) ==
    /\ front.scans[s].pc = "timer"
    /\ front' = [front EXCEPT
           !.cache = {e \in @ : e.key # front.scans[s].domain},
           !.scans[s].pc = "done"]
    /\ UNCHANGED <<brands, mappings, urls, bucket, clock, extractJobs, batchJobs,
                   req, wh, cron, call, cleanDomain, categorized, completedWrites>>

NextScan ==
    \E s \in 1..MaxScans : ScanPost(s) \/ WorkerResponds(s) \/ CacheExpires(s)

SpecScan == Init /\ [][NextScan]_vars

(***************************************************************************)
(* categorizeUrls alone, on the links of a map result: URLs that match no  *)
(* pattern, one, or several of one or of different categories, each with   *)
(* a title that matches none, one or two; a link may come twice.           *)
(***************************************************************************)
InitCategorize ==
    LET page(url, host, path, home) ==
            [url |-> url, host |-> host, path |-> path, title |-> {},
             home |-> home, valid |-> TRUE]
        pages ==
            { HomeLink, BlogLink,
              page("https://acme.com/home", {}, {}, TRUE),
              page("https://acme.com/pricing", {}, {}, FALSE),
              page("https://acme.com/blog/about-us", {}, {"blog", "about"}, FALSE),
              page("https://docs.acme.com/api/shop", {"docs"}, {"api", "shop"}, FALSE),
              page("https://shop.acme.com/help", {"shop"}, {"help"}, FALSE),
              page("https://news.shop.acme.com/", {"news", "shop"}, {}, TRUE),
              page("https://www.blog.acme.com/x", {"www", "blog"}, {}, FALSE),
              page("https://acme.com/products", {}, {"products"}, FALSE),
              [page("acme", {}, {}, FALSE) EXCEPT !.valid = FALSE] }
        titles == { {}, {"blog"}, {"guide", "shop"} }
        inputs == {[p EXCEPT !.title = t] : p \in pages, t \in titles}
    IN \E links \in UNION {[1..n -> inputs] : n \in 1..MaxLinks} :
          /\ brands = <<>>
          /\ mappings = [b \in BrandIds |-> NoMapping]
          /\ urls = [b \in BrandIds |-> [u \in Urls |-> "absent"]]
          /\ bucket = {}
          /\ clock = 0
          /\ extractJobs = <<>>
          /\ batchJobs = <<>>
          /\ req = [r \in Requests |-> IdleReq]
          /\ wh = [w \in Deliveries |-> IdleWh]
          /\ cron = [t \in Ticks |-> IdleCron]
          /\ call = IdleCall
          /\ cleanDomain = NoInput
          /\ categorized = [links |-> links, out |-> <<>>]
          /\ front = NoScans
          /\ completedWrites = {}

\* const categorizedUrls = categorizeUrls(mapResult.links)
CategorizeLinks ==
    /\ categorized.out = <<>>
    /\ categorized' = [categorized EXCEPT !.out = <<categorizeUrls(categorized.links)>>]
    /\ UNCHANGED <<brands, mappings, urls, bucket, clock, extractJobs, batchJobs,
                   req, wh, cron, call, cleanDomain, front, completedWrites>>

SpecCategorize == InitCategorize /\ [][CategorizeLinks]_vars

(***************************************************************************)
(* One uploadBrandContent call.  The bucket holds what an earlier upload   *)
(* of some of the pages stored, at time 0; the content alternates between  *)
(* the two pages, so a list longer than BATCH_SIZE has every page twice in *)
(* a batch and again in the next.                                          *)
(***************************************************************************)
ContentOf(n) == [k \in 1..n |-> IF k % 2 = 1 THEN HomeLink.url ELSE BlogLink.url]

ContentLists == {ContentOf(n) : n \in 1..MaxItems} \cup {<<BlogLink.url>>}

InitUpload ==
    \E content \in ContentLists, overwrite \in BOOLEAN, earlier \in SUBSET Urls :
       LET domain == normalizeUrl(<<"acme", ".", "com">>) IN
       /\ brands = <<>>
       /\ mappings = [b \in BrandIds |-> NoMapping]
       /\ urls = [b \in BrandIds |-> [u \in Urls |-> "absent"]]
       /\ bucket = {generateR2Key(domain, u, 0) : u \in earlier}
       /\ clock = 0
       /\ extractJobs = <<>>
       /\ batchJobs = <<>>
       /\ req = [r \in Requests |-> IdleReq]
       /\ wh = [w \in Deliveries |-> IdleWh]
       /\ cron = [t \in Ticks |-> IdleCron]
       /\ cleanDomain = NoInput
       /\ categorized = NoLinks
       /\ front = NoScans
       /\ call = [IdleCall EXCEPT
                     !.pc = "loop", !.domain = domain, !.content = content,
                     !.overwrite = overwrite,
                     !.items = [k \in 1..Len(content) |-> WaitingItem],
                     !.summary.total = Len(content)]
       /\ completedWrites = {}

NextUpload ==
    \/ BeginBatch
    \/ \E k \in 1..MaxItems : HeadItem(k) \/ PutItem(k)
    \/ JoinBatch

SpecUpload == InitUpload /\ [][NextUpload]_vars

(***************************************************************************)
(* The whole system, from the empty database.                              *)
(***************************************************************************)
Discovery(r) ==
    \/ StartDiscovery(r) \/ LookupBrand(r) \/ UpdateBrand(r) \/ InsertBrand(r)
    \/ UpsertMapping(r) \/ MapUrls(r) \/ StoreUrls(r) \/ UpdateMappingCounts(r)
    \/ StartBatch(r) \/ MarkMappingFailed(r)

Delivery(w) ==
    \/ handleWebhook(w, Routes) \/ MarkUploading(w) \/ UploadToR2(w)
    \/ MarkUploadResult(w) \/ JobCompletedWrite(w) \/ FailPendingUrls(w)

Reconcile(t) == CronSelect(t) \/ CronProcess(t)

Next ==
    \/ \E r \in Requests : Discovery(r)
    \/ \E w \in Deliveries : Delivery(w)
    \/ \E j \in 1..MaxDiscoveries : ExtractJobFinishes(j)
    \/ \E t \in Ticks : Reconcile(t)

Spec == Init /\ [][Next]_vars

(***************************************************************************)
(* The discovery runs alone, one request after the other, from the empty   *)
(* database: a run finds the rows the runs before it have left.            *)
(***************************************************************************)
NextLaunch ==
    \E r \in Requests :
       /\ IF r = 1 THEN TRUE ELSE req[r - 1].pc = "done"
       /\ Discovery(r)

SpecLaunch == Init /\ [][NextLaunch]_vars

(***************************************************************************)
(* The life of the brands table: the steps of a discovery request up to   *)
(* its write to brands, the extract job, the reconciler and the            *)
(* extract.completed webhook.  No other step reads or writes brands or     *)
(* extractJobs, so a request is left at its next await.                    *)
(***************************************************************************)
NextBrands ==
    \/ \E r \in Requests :
          StartDiscovery(r) \/ LookupBrand(r) \/ UpdateBrand(r) \/ InsertBrand(r)
    \/ \E w \in Deliveries : handleWebhook(w, {"extract"})
    \/ \E j \in 1..MaxDiscoveries : ExtractJobFinishes(j)
    \/ \E t \in Ticks : CronSelect(t) \/ CronProcess(t)

SpecBrands == Init /\ [][NextBrands]_vars

(***************************************************************************)
(* The webhook deliveries of one discovery run, every request that does    *)
(* not reach handleExtractCompleted.  The run has launched its             *)
(* batch-scrape job: the brand row is the placeholder, the mapping is at   *)
(* mapping_urls, every mapped link has a row in discovered, and a link the *)
(* run did not map has no row or the row an earlier run left behind.       *)
(***************************************************************************)
Leftovers == {"absent", "uploaded", "failed"}

InitDelivery ==
    \E links \in MapResults \ {<<>>}, left \in [Urls -> Leftovers] :
       LET domain == normalizeUrl(<<"acme", ".", "com">>) IN
       /\ brands = <<NewBrand(domain, PlaceholderFields(domain, 1))>>
       /\ mappings = [b \in BrandIds |->
                         IF b = 1
                         THEN MappingCounts(MappingUpsert(NoMapping), Len(links))
                         ELSE NoMapping]
       /\ urls = [b \in BrandIds |-> [u \in Urls |->
                         IF b # 1 THEN "absent"
                         ELSE IF u \in UrlsOf(links) THEN "discovered" ELSE left[u]]]
       /\ bucket = {generateR2Key(domain, u, 0) :
                        u \in {v \in Urls \ UrlsOf(links) : left[v] = "uploaded"}}
       /\ clock = 0
       /\ extractJobs = <<[status |-> "processing", data |-> EmptyData]>>
       /\ batchJobs = <<[req |-> 1, brandId |-> 1, domain |-> domain,
                          mappingId |-> 1, urls |-> SelectedUrls(links)]>>
       /\ req = [r \in Requests |-> IF r = 1 THEN Finish(1, "true", 1, None)
                                      ELSE IdleReq]
       /\ wh = [w \in Deliveries |-> IdleWh]
       /\ cron = [t \in Ticks |-> IdleCron]
       /\ call = IdleCall
       /\ cleanDomain = NoInput
       /\ categorized = NoLinks
       /\ front = NoScans
       /\ completedWrites = {}

NextDelivery ==
    \E w \in Deliveries :
       \/ handleWebhook(w, BatchRoutes) \/ MarkUploading(w) \/ UploadToR2(w)
       \/ MarkUploadResult(w) \/ JobCompletedWrite(w) \/ FailPendingUrls(w)

SpecDelivery == InitDelivery /\ [][NextDelivery]_vars

(***************************************************************************)
(* A second discovery request for the domain of a run that has launched    *)
(* its batch-scrape job, while the started and completed events of the     *)
(* batch-scrape jobs are delivered.                                        *)
(***************************************************************************)
NextRerun ==
    \/ \E r \in Requests : Discovery(r)
    \/ \E w \in Deliveries :
          handleWebhook(w, {"started", "completed"}) \/ JobCompletedWrite(w)

SpecRerun == InitDelivery /\ [][NextRerun]_vars

(***************************************************************************)
(* The failure events alone: every brand has launched its batch scrape and *)
(* its page handlers have left their rows somewhere on the way.            *)
(***************************************************************************)
\* brand 1 has one page uploaded, brand 2 none yet, a later brand has one
\* page in upload
RowsOf(b) ==
    [u \in Urls |->
        IF b = 1 THEN (IF u = HomeLink.url THEN "discovered" ELSE "uploaded")
        ELSE IF b = 2 THEN "discovered"
        ELSE (IF u = HomeLink.url THEN "uploading" ELSE "discovered")]

InitFailure ==
       LET domain == normalizeUrl(<<"acme", ".", "com">>)
           rows == [b \in BrandIds |-> RowsOf(b)]
       IN
       /\ brands = [b \in BrandIds |-> PlaceholderRow(b)]
       /\ mappings = [b \in BrandIds |->
                         MappingCounts(MappingUpsert(NoMapping), Cardinality(Urls))]
       /\ urls = rows
       /\ bucket = {generateR2Key(domain, u, 0) :
                        u \in {v \in Urls : \E b \in BrandIds : rows[b][v] = "uploaded"}}
       /\ clock = 0
       /\ extractJobs = [b \in BrandIds |-> [status |-> "processing", data |-> EmptyData]]
       /\ batchJobs = [b \in BrandIds |->
                          [req |-> b, brandId |-> b, domain |-> domain, mappingId |-> b,
                           urls |-> SelectedUrls(<<HomeLink, BlogLink>>)]]
       /\ req = [r \in Requests |-> Finish(r, "true", r, None)]
       /\ wh = [w \in Deliveries |-> IdleWh]
       /\ cron = [t \in Ticks |-> IdleCron]
       /\ call = IdleCall
       /\ cleanDomain = NoInput
       /\ categorized = NoLinks
       /\ front = NoScans
       /\ completedWrites = {}

NextFailure ==
    \E w \in Deliveries : handleWebhook(w, {"failed"}) \/ FailPendingUrls(w)

SpecFailure == InitFailure /\ [][NextFailure]_vars

(***************************************************************************)
(* The deliveries that handleFirecrawlWebhook answers at once, between the *)
(* steps of handleJobFailed for the events that carry their metadata.      *)
(***************************************************************************)
NextIgnored ==
    \E w \in Deliveries : handleWebhook(w, {"failed", "ignored"}) \/ FailPendingUrls(w)

SpecIgnored == InitFailure /\ [][NextIgnored]_vars

(***************************************************************************)
(* Claims.                                                                 *)
(***************************************************************************)

\* C1: crawl_status only moves forward along extracting -> processing ->
\* {completed, failed}: no step changes a row from processing, completed or
\* failed back to extracting, nor from completed or failed back to processing.
CrawlStatusOnlyForward ==
    [][\A b \in 1..Len(brands) :
          /\ brands[b].crawl_status \in {"processing", "completed", "failed"}
                => brands'[b].crawl_status # "extracting"
          /\ brands[b].crawl_status \in {"completed", "failed"}
                => brands'[b].crawl_status # "processing"]_vars

\* C2: within the discovery run, progress_percentage of the mapping never
\* decreases, whatever the order and duplication of the run's deliveries.
ProgressNeverDecreases ==
    [][\A b \in BrandIds :
          mappings'[b].progress_percentage >= mappings[b].progress_percentage]_vars

\* C3: at most one public, ownerless Brand row exists per primary_domain,
\* for every interleaving of the discovery requests for that domain.
OneBrandPerDomain ==
    \A b1, b2 \in 1..Len(brands) :
       brands[b1].primary_domain = brands[b2].primary_domain => b1 = b2

CompletedTwiceWritesTheSame ==
    \A x \in completedWrites :
       /\ x.row.status = "completed"
       /\ x.row.progress_percentage = 100
       /\ x.row.current_step =
             Step("pages uploaded to AI Search! (failed)",
                  Cardinality({u \in Urls : x.snap[u] = "uploaded"}),
                  Cardinality({u \in Urls : x.snap[u] = "failed"}))
       /\ \A y \in completedWrites :
             x.mappingId = y.mappingId /\ x.snap = y.snap
                => /\ x.row.status = y.row.status
                   /\ x.row.progress_percentage = y.row.progress_percentage
                   /\ x.row.current_step = y.row.current_step

\* a completed event has been handled twice over the same rows, some of them
\* uploaded or failed
CompletedHandledTwice ==
    \E x, y \in completedWrites :
       /\ x.w # y.w
       /\ x.mappingId = y.mappingId
       /\ x.snap = y.snap
       /\ \E u \in Urls : x.snap[u] \in {"uploaded", "failed"}

UrlStatusInDeclaredSet ==
    \A b \in BrandIds, u \in Urls :
       urls[b][u] # "absent"
          => urls[b][u] \in {"discovered", "scraping", "uploading", "uploaded", "failed"}

\* C8: within the discovery run the terminal statuses of the mapping are
\* absorbing: once completed or failed, no delivery changes the status.
TerminalStatusAbsorbing ==
    [][\A b \in BrandIds :
          mappings[b].status \in {"completed", "failed"}
             => mappings'[b].status = mappings[b].status]_vars

\* C9: when a completed event of the batch scrape for brand b has been
\* handled, the crawl_status of Brand row b is completed.
CompletionMarksBrandCompleted ==
    [][\A w \in Deliveries :
          wh[w].pc = "summary" /\ wh'[w].pc = "done"
             => brands'[wh[w].brandId].crawl_status = "completed"]_vars

\* C10: a Brand row written by the reconciler's completed branch holds the
\* name, description, logo_url, metadata and crawl_status that the webhook's
\* extract.completed branch writes for the same domain and extracted data.
CronWritesWhatWebhookWrites ==
    \A b \in 1..Len(brands) :
       brands[b].metadata.cronProcessed
          => LET fields == WebhookExtractFields(brands[b].primary_domain,
                                                brands[b].metadata.data)
             IN /\ brands[b].name = fields.name
                /\ brands[b].description = fields.description
                /\ brands[b].logo_url = fields.logo_url
                /\ brands[b].metadata = fields.metadata
                /\ brands[b].crawl_status = fields.crawl_status

\* the objects the bucket holds for one page of a brand
ObjectsOf(domain, url) == {key \in bucket : key.domain = domain /\ key.url = url}

\* C11: uploads of the same (brandPrefix, url) without overwrite do not both
\* write: an upload that follows one that stored the page finds the object
\* and makes no put, so the bucket holds one object for the page at most.
OneObjectPerPage ==
    ~call.overwrite =>
        \A u \in Urls : Cardinality(ObjectsOf(call.domain, u)) <= 1

\* C12: a call of uploadBrandContent with a non-empty content list, whatever
\* items fail in head or put, returns: results holds one entry per item, in
\* input order, with the item's url; successful + failed = total = the number
\* of items; and the success of an entry is that of its own item alone.
EveryItemReported ==
    call.pc = "done" =>
        LET n == Len(call.content) IN
        /\ Len(call.results) = n
        /\ \A k \in 1..n :
              /\ call.results[k].url = call.content[k]
              /\ call.results[k].success = (call.items[k].outcome \in {"stored", "found"})
              /\ call.results[k].success => call.results[k].r2Key = call.items[k].key
              /\ ~call.results[k].success =>
                    call.results[k].r2Key = generateR2Key(<<>>, None, 0)
        /\ call.summary.total = n
        /\ call.summary.successful + call.summary.failed = n
        /\ call.summary.successful = Successes(call.results)
        /\ call.success = (call.summary.successful > 0)

\* a call over two batches has returned with a failed item between two
\* successful ones, one of them found and one stored
FailureBetweenSuccesses ==
    /\ call.pc = "done"
    /\ Len(call.content) > BATCH_SIZE
    /\ call.items[1].outcome = "found"
    /\ call.items[2].outcome = "failed"
    /\ call.items[3].outcome = "stored"
    /\ call.items[Len(call.content)].outcome = "failed"
    /\ call.summary.failed = 2


\* C13: when startAsyncBrandExtraction returns null the run returns at once
\* with success = false and the error of the failed start: it has written no
\* Brand, ProgressMapping or BrandUrl row and made no map or batch-scrape call,
\* and no run goes past the start without an extract job.
NoExtractJobNoRun ==
    [][\A r \in Requests :
          /\ req[r].pc = "idle" /\ req'[r].pc # "idle" /\ extractJobs' = extractJobs
                => /\ req'[r] = Finish(r, "false", 0, "Failed to start brand extraction")
                   /\ tables' = tables
                   /\ batchJobs' = batchJobs
          /\ req'[r].pc \notin {"idle", "done"} => req'[r].extractJobId # 0]_vars

\* a run was refused its extract job after an earlier run had stored rows
\* and started its batch scrape
AbortedAfterLaunch ==
    \E r \in Requests :
       /\ req[r].pc = "done"
       /\ req[r].error = "Failed to start brand extraction"
       /\ brands # <<>>
       /\ batchJobs # <<>>

\* the errors startAsyncBrandPipeline returns
LaunchErrors ==
    {"No URLs discovered during mapping", "BatchScrape failed: No job ID returned",
     "map threw", "startBatchScrape threw"}

\* C14: when the launch of map and batch scrape fails (no links, no job id,
\* or an exception) the run marks its mapping failed with the launch error
\* as error_message, leaves the Brand rows as they are, and returns
\* success = true with its brand.
LaunchFailureKeepsBrand ==
    [][\A r \in Requests :
          /\ req[r].pc \in {"map", "batch"} /\ req'[r].pc # req[r].pc
                /\ batchJobs' = batchJobs /\ req'[r].pc # "store"
                => /\ req'[r].pc = "markfailed"
                   /\ req'[r].error \in LaunchErrors
                   /\ tables' = tables
          /\ req[r].pc = "markfailed" /\ req'[r].pc # "markfailed"
                => /\ mappings'[req[r].brand].status = "failed"
                   /\ mappings'[req[r].brand].error_message = req[r].error
                   /\ brands' = brands
                   /\ req[r].brand \in DOMAIN brands
                   /\ req'[r] = Finish(r, "true", req[r].brand, req[r].error)
          /\ req[r].pc # "done" /\ req'[r].pc = "done"
                /\ req'[r].error \in LaunchErrors
                => req[r].pc = "markfailed"]_vars

\* a run whose batch scrape returned no job id has returned success with its
\* brand, the mapping failed with that error
LaunchFailedReturned ==
    \E r \in Requests :
       /\ req[r].pc = "done"
       /\ req[r].success = "true"
       /\ req[r].error = "BatchScrape failed: No job ID returned"
       /\ mappings[req[r].brand].status = "failed"
       /\ mappings[req[r].brand].error_message = req[r].error


\* C20: when startAsyncBrandPipeline starts a batch-scrape job, every link the
\* map call returned is a BrandUrl row of the brand in status discovered, and
\* the job's URLs are selectTopUrls(categorizeUrls(links), 8): every URL a
\* page event can arrive for has a row, also after an upsert error.
LinksStoredBeforeBatch ==
    [][\A r \in Requests :
          req[r].pc = "batch" /\ Len(batchJobs') > Len(batchJobs)
             => LET job == batchJobs'[Len(batchJobs')] IN
                /\ job.urls = SelectedUrls(req[r].links)
                /\ \A u \in UrlsOf(req[r].links) : urls[req[r].brand][u] = "discovered"
                /\ \A u \in job.urls : urls[job.brandId][u] # "absent"]_vars


\* C16: normalizeUrl is idempotent: for every non-empty input x, with a
\* repeated scheme, an escaped percent sign or no dot as well,
\* normalizeUrl(normalizeUrl(x)) = normalizeUrl(x).
NormalizeUrlIdempotent ==
    Len(cleanDomain.results) >= 2 => cleanDomain.results[2] = cleanDomain.results[1]


\* the row of brand b after one tick that has polled its extract job
SingleTick(b) ==
    LET job == extractJobs[b] IN
    IF job.status = "completed"
    THEN Updated(PlaceholderRow(b),
                 CronExtractFields(PlaceholderRow(b).primary_domain, job.data))
    ELSE IF job.status = "failed"
    THEN [PlaceholderRow(b) EXCEPT !.crawl_status = "failed"]
    ELSE PlaceholderRow(b)

\* C15: the reconciler may overlap with itself: whatever ticks have selected
\* a brand and in whatever order they write, every write leaves the Brand row
\* that one tick polling the same job status leaves, so the rows after all
\* ticks are the rows after one.
OverlappingTicksAsOne ==
    [][\A b \in DOMAIN brands :
          brands'[b] # brands[b] => brands'[b] = SingleTick(b)]_vars

\* tick 1 has written brand 1 from its completed job, and tick 2, which
\* selected the same two brands, has still to poll and write both
SecondTickBehind ==
    /\ Len(brands) = 2
    /\ extractJobs[1].status = "completed"
    /\ brands[1] = SingleTick(1)
    /\ cron[1].pc = "loop" /\ Len(cron[1].pending) = 1
    /\ cron[2].pc = "loop" /\ Len(cron[2].pending) = 2

\* C17: the handler of a crawl.failed, batch_scrape.failed or extract.failed
\* event with brandId b and mappingId m sets mapping m to failed with the
\* event's error, or the default text, as error_message; then every BrandUrl
\* row of b in discovered or scraping becomes failed, and every row of b in
\* another status and every row of another brand stays as it is.
FailedEventEffect ==
    [][\A w \in Deliveries :
          /\ wh[w].pc = "idle" /\ wh'[w].pc = "pending"
                => /\ urls' = urls
                   /\ \A m \in BrandIds :
                         mappings'[m] =
                            IF m = wh'[w].mappingId
                            THEN [mappings[m] EXCEPT
                                     !.status = "failed",
                                     !.error_message =
                                         IF wh'[w].error = None
                                         THEN "Firecrawl job failed"
                                         ELSE wh'[w].error]
                            ELSE mappings[m]
          /\ wh[w].pc = "pending" /\ wh'[w].pc # "pending"
                => /\ mappings' = mappings
                   /\ \A b \in BrandIds, u \in Urls :
                         urls'[b][u] =
                            IF b = wh[w].brandId
                                 /\ urls[b][u] \in {"discovered", "scraping"}
                            THEN "failed" ELSE urls[b][u]]_vars

\* a failure event of brand 1 without an error has been handled: its mapping
\* is failed with the default text, its discovered row is failed, its
\* uploaded row and the discovered rows of brand 2 are as they were
FailureHandledForOneBrand ==
    /\ \E w \in Deliveries : wh[w].pc = "done"
    /\ mappings[1].status = "failed"
    /\ mappings[1].error_message = "Firecrawl job failed"
    /\ urls[1][HomeLink.url] = "failed"
    /\ urls[1][BlogLink.url] = "uploaded"
    /\ mappings[2].status = "mapping_urls"
    /\ \A u \in Urls : urls[2][u] = "discovered"


\* C18: a request with a matching signature whose body is an event of none
\* of the handled crawl.*, batch_scrape.* and extract.* types is answered 200
\* and changes no Brand, ProgressMapping or BrandUrl row and no bucket object.
UnhandledTypeIgnored ==
    [][\A w \in Deliveries :
          wh[w].pc = "idle" /\ wh'[w].pc # "idle" /\ wh'[w].sigGood /\ wh'[w].parsed
                /\ wh'[w].unhandled
             => /\ wh'[w].pc = "done"
                /\ wh'[w].resp = 200
                /\ tables' = tables]_vars

\* a signed event of an unknown type has been answered 200 while the handler
\* of a page event is at its upload
UnknownTypeAnswered ==
    /\ wh[1].pc = "upload"
    /\ wh[2].pc = "done" /\ wh[2].resp = 200 /\ wh[2].sigGood /\ wh[2].parsed
    /\ wh[2].unhandled


\* C19: a page handler that has marked its row uploading returns with the
\* row marked uploaded or failed, also when the uploader or a later step
\* throws: its last step does not leave the row in scraped or uploading.
UploadingEndsUploadedOrFailed ==
    [][\A w \in Deliveries :
          wh[w].pc \in {"upload", "result"} /\ wh'[w].pc = "done"
             => urls'[wh[w].brandId][wh[w].url] \in {"uploaded", "failed"}]_vars


\* C21: within one tick an exception while polling or updating a selected
\* brand is caught for that brand alone: the brand's row stays as it is, the
\* loop goes on to every brand selected after it, and each of these that is
\* polled without an exception is updated if its job is completed or failed
\* and left unchanged otherwise; no iteration writes the row of another brand.
PollFailureStaysWithItsBrand ==
    [][\A t \in 1..MaxOverlap :
          cron[t].pc = "loop" /\ cron'[t] # cron[t]
             => LET brand == Head(cron[t].pending)
                    job == extractJobs[brand.extractJobId]
                IN /\ cron'[t].pending = Tail(cron[t].pending)
                   /\ cron'[t].pc = IF cron'[t].pending = <<>> THEN "done" ELSE "loop"
                   /\ \A b \in DOMAIN brands : b # brand.id => brands'[b] = brands[b]
                   /\ cron'[t].threw => brands' = brands
                   /\ ~cron'[t].threw =>
                         brands'[brand.id] =
                            IF job.status = "completed"
                            THEN Updated(brands[brand.id],
                                     CronExtractFields(brand.primary_domain, job.data))
                            ELSE IF job.status = "failed"
                            THEN [brands[brand.id] EXCEPT !.crawl_status = "failed"]
                            ELSE brands[brand.id]]_vars

\* the poll of the first brand of a tick has thrown, and the tick is about
\* to poll the second, whose job is completed and whose row is still the
\* placeholder
ThrownThenNextBrand ==
    \E t \in 1..MaxOverlap :
       /\ cron[t].pc = "loop" /\ cron[t].threw
       /\ Len(cron[t].pending) = 1
       /\ extractJobs[cron[t].pending[1].extractJobId].status = "completed"
       /\ brands[cron[t].pending[1].id] = PlaceholderRow(cron[t].pending[1].id)
       /\ brands[1] = PlaceholderRow(1)

\* C22: during one uploadBrandContent call at most BATCH_SIZE single-item
\* uploads are in flight at any time, and no upload of a batch has started
\* while an upload of an earlier batch has not settled.
BatchesOneAtATime ==
    LET n == Len(call.items)
        inFlight == {k \in 1..n : call.items[k].pc \in {"head", "put"}}
        batchNo(k) == (k - 1) \div BATCH_SIZE
    IN /\ Cardinality(inFlight) <= BATCH_SIZE
       /\ \A j, k \in 1..n :
             batchNo(j) < batchNo(k) /\ call.items[k].pc # "waiting"
                => call.items[j].pc = "settled"

\* the second batch is in flight after a first batch of BATCH_SIZE uploads,
\* one of them rejected, has settled
SecondBatchInFlight ==
    /\ Len(call.items) > BATCH_SIZE
    /\ call.items[BATCH_SIZE + 1].pc \in {"head", "put"}
    /\ \A k \in 1..BATCH_SIZE : call.items[k].pc = "settled"
    /\ call.items[2].outcome = "failed"
    /\ call.items[1].outcome = "stored"

\* C23: categorizeUrls places every link in exactly one category, in input
\* order: the category among company, blog, docs, ecommerce with the highest
\* cumulative score (subdomain +100, path +50, title +25, homepage +30 for
\* company), a tie going to the first in that order; a link that scores 0 in
\* all four, or whose URL is malformed, goes to other with priority 0; the
\* stored priority is the winning score.
EveryLinkInItsCategory ==
    categorized.out # <<>> =>
       LET links == categorized.links
           out == categorized.out[1]
           score(l, c) ==
               (IF l.host \cap Patterns[c].subdomains # {} THEN 100 ELSE 0)
             + (IF l.path \cap Patterns[c].paths # {} THEN 50 ELSE 0)
             + (IF l.title \cap Patterns[c].titles # {} THEN 25 ELSE 0)
             + (IF c = "company" /\ l.home THEN 30 ELSE 0)
           best(l) == Max({score(l, Categories[i]) : i \in 1..4})
           winner(l) ==
               IF ~l.valid \/ best(l) = 0 THEN "other"
               ELSE Categories[CHOOSE i \in 1..4 :
                       /\ score(l, Categories[i]) = best(l)
                       /\ \A j \in 1..(i - 1) : score(l, Categories[j]) < best(l)]
           priority(l) == IF winner(l) = "other" THEN 0 ELSE best(l)
           placed(c) == {i \in 1..Len(links) : winner(links[i]) = c}
       IN /\ DOMAIN out = {"company", "blog", "docs", "ecommerce", "other"}
          /\ \A c \in DOMAIN out :
                /\ Len(out[c]) = Cardinality(placed(c))
                /\ \A k \in 1..Len(out[c]) :
                      \E i \in placed(c) :
                         /\ Cardinality({j \in placed(c) : j <= i}) = k
                         /\ out[c][k] = [url |-> links[i].url,
                                          priority |-> priority(links[i])]

\* a link whose path matches company and blog alike has gone to company
\* with the tied score, after a link that matches nothing has gone to other
TieGoesToFirst ==
    /\ categorized.out # <<>>
    /\ Len(categorized.links) = 2
    /\ categorized.links[1].url = "https://acme.com/pricing"
    /\ categorized.links[1].title = {}
    /\ categorized.links[2].url = "https://acme.com/blog/about-us"
    /\ categorized.links[2].title = {}
    /\ categorized.out[1]["company"] =
          <<[url |-> "https://acme.com/blog/about-us", priority |-> 50]>>
    /\ categorized.out[1]["other"] =
          <<[url |-> "https://acme.com/pricing", priority |-> 0]>>

\* C24: the scan route deduplicates concurrent requests through
\* processingCache: while a scan request for a normalized domain is in
\* flight, a second scan request for the same domain issues no second call
\* to the worker's /brand-discovery but shares the one in flight.
OneWorkerCallPerDomain ==
    /\ \A f, g \in front.fetches : f.domain = g.domain => f = g
    /\ \A s, t \in 1..MaxScans :
          front.scans[s].pc = "waiting" /\ front.scans[t].pc = "waiting"
                /\ front.scans[s].domain = front.scans[t].domain
             => front.scans[s].promise = front.scans[t].promise

\* C25: webhook events of a superseded run do not affect the current run:
\* after a second discovery request for the same brand and domain has reset
\* the mapping to processing/30, a started, completed or failed event of the
\* first run's batch-scrape job changes neither status nor progress of the
\* mapping.
SupersededRunIgnored ==
    [][\A r \in Requests :
          /\ req[r].pc \in {"map", "store", "counts", "batch"}
          /\ \A j \in 1..Len(batchJobs) : batchJobs[j].req # r
          /\ wh' # wh
          => /\ mappings'[req[r].brand].status = mappings[req[r].brand].status
             /\ mappings'[req[r].brand].progress_percentage
                   = mappings[req[r].brand].progress_percentage]_vars

\* C26: a completed event may be handled while a page event of the run is
\* still being handled, or before one arrives: once every delivery has been
\* handled, the uploaded and failed numbers in the current_step of the
\* completed mapping are the numbers of the brand's BrandUrl rows in status
\* uploaded and failed.
SummaryMatchesRowsAtTheEnd ==
    \A b \in BrandIds :
       /\ \A w \in Deliveries : wh[w].pc = "done"
       /\ mappings[b].status = "completed"
       => mappings[b].current_step =
             Step("pages uploaded to AI Search! (failed)",
                  Count(urls[b], "uploaded"), Count(urls[b], "failed"))

\* C27: a BrandUrl row that has reached uploaded or failed never returns to
\* an earlier status: no duplicate or late page event, failed event or
\* repeated discovery request moves an uploaded row back to discovered,
\* scraped or uploading, or a failed row on to uploaded.
FinalUrlStatusStays ==
    [][\A b \in BrandIds, u \in Urls :
          /\ urls[b][u] = "uploaded" => urls'[b][u] = "uploaded"
          /\ urls[b][u] = "failed" => urls'[b][u] = "failed"]_vars

\* C29: when the mapping of a run is completed and no page event of the run
\* is being handled, every BrandUrl row of the brand is uploaded or failed:
\* no row is left in discovered, scraped or uploading.
CompletedLeavesNoRowBehind ==
    \A b \in BrandIds :
       /\ mappings[b].status = "completed"
       /\ \A w \in Deliveries : wh[w].pc \in {"idle", "done"}
       => \A u \in Urls : urls[b][u] \in {"absent", "uploaded", "failed"}

\* C28: under repeated ticks every brand in extracting whose extract job
\* reports completed or failed eventually leaves extracting, however many
\* older brands wait on jobs that stay unfinished.
EveryFinishedJobLeavesExtracting ==
    \A b \in 1..(CronLimit + 1) :
       (/\ b \in DOMAIN brands
        /\ brands[b].crawl_status = "extracting"
        /\ extractJobs[b].status \in {"completed", "failed"})
          ~> (b \in DOMAIN brands /\ brands[b].crawl_status # "extracting")

\* C30: a request with a matching signature whose event lacks brandId or
\* domain in its metadata is answered 200 and changes no row and no bucket
\* object, whatever the type of the event and also when mappingId is there:
\* every such request is one the dispatcher answers at once (the requests
\* follow from the jobs and the brands, which no step here changes, so they
\* are looked at when the first one is delivered), no handler is entered
\* without brandId and domain, and the step that answers at once answers 200
\* and leaves the tables and the bucket as they are.
MissingMetadataAnswered200 ==
    [][\A w \in Deliveries :
          wh[w].pc = "idle" /\ wh'[w].pc # "idle"
             => /\ (\A v \in Deliveries : wh[v].pc = "idle")
                      => \A request \in WebhookRequests :
                            /\ request.body.event.brandId = 0
                                  \/ request.body.event.domain = <<>>
                            /\ Parses(request.body)
                            /\ Signed(request)
                            => Route(request) = "ignored"
                /\ wh'[w].pc # "done"
                      => wh'[w].brandId # 0 /\ wh'[w].domain # <<>>
                /\ wh'[w].pc = "done"
                      => wh'[w].resp = 200 /\ tables' = tables]_vars

\* a signed event of a handled type has been answered 200 at once, which only
\* an event without brandId or domain is; such events exist for the started,
\* page, completed, failed and extract.completed types, with a mappingId too
MissingMetadataDelivered ==
    /\ wh[1].pc = "done" /\ wh[1].resp = 200 /\ wh[1].sigGood /\ wh[1].parsed
    /\ ~wh[1].unhandled
    /\ wh[2].pc = "idle"
    /\ \A t \in {"batch_scrape.started", "batch_scrape.page", "batch_scrape.completed",
                 "batch_scrape.failed", "extract.completed"} :
          \E request \in WebhookRequests :
             /\ Signed(request) /\ Parses(request.body)
             /\ request.body.event.type = t
             /\ request.body.event.brandId = 0 \/ request.body.event.domain = <<>>
             /\ t # "extract.completed" => request.body.event.mappingId # 0

=============================================================================
